---------------------------- MODULE Spec2Model ----------------------------
(***************************************************************************)
(* b64filter: a line-oriented subprocess used as a document filter.        *)
(*                                                                         *)
(* Two revisions of the program are modelled side by side; the variable    *)
(* rev says which one a behaviour belongs to:                              *)
(*   "A"  src/b64filter.go        counts is a buffered channel (256)       *)
(*   "B"  src/unnamed/part_001    counts is a queue.Queue, plus a done     *)
(*                                channel between writeDocs and main       *)
(*                                                                         *)
(* Bytes are integers (their ASCII codes), byte strings are sequences.     *)
(***************************************************************************)
EXTENDS Integers, Sequences, FiniteSets, TLC

\* ---------------------------------------------------------------- bounds

\* Documents in one input stream.
MaxDocs == 2
\* Total number of bytes of the documents of one input stream.
MaxBytes == 3
\* Capacity, in bytes, of the kernel pipe to the filter's standard input.
InCap == 1
\* Capacity, in bytes, of the kernel pipe from the filter's standard output.
OutCap == 1
\* Size of a bufio.Reader's buffer (4096 in the Go library).
BufSize == 2
\* Total number of bytes of the documents given to a line-preserving filter.
MaxCatBytes == 2
\* Capacity of the pipe from the filter when the ledger is to fill up.
BigPipe == 32

\* ------------------------------------------------------------- constants

\* '\n', the line terminator.
LF == 10
\* '\r', which bufio's ReadLine drops in front of a terminator.
CR == 13
\* Capacity of the counts channel of revision A.
CountsCap == 256
\* The hint given to queue.New in revision B.
QueueHint == 32

\* The bytes documents are made of: the terminator, a carriage return and 'a'.
Bytes == {LF, CR, 97}

\* ------------------------------------------------------- byte strings

Min(a, b) == IF a < b THEN a ELSE b

Take(s, k) == SubSeq(s, 1, k)

Drop(s, k) == SubSeq(s, k + 1, Len(s))

\* bytes.Count(s, "\n")
RECURSIVE CountLF(_)
CountLF(s) ==
  IF s = <<>> THEN 0
  ELSE (IF Head(s) = LF THEN 1 ELSE 0) + CountLF(Tail(s))

\* Position of the first terminator of s, 0 when there is none.
IndexLF(s) ==
  IF \E j \in 1..Len(s) : s[j] = LF
  THEN CHOOSE j \in 1..Len(s) : s[j] = LF /\ \A h \in 1..(j - 1) : s[h] # LF
  ELSE 0

\* bytes.Join(lines, "\n")
RECURSIVE Join(_)
Join(ls) ==
  IF ls = <<>> THEN <<>>
  ELSE IF Len(ls) = 1 THEN ls[1]
  ELSE ls[1] \o <<LF>> \o Join(Tail(ls))

RECURSIVE Sum(_)
Sum(s) == IF s = <<>> THEN 0 ELSE Head(s) + Sum(Tail(s))

\* ------------------------------------------------------------- base64

\* The character of a 6-bit value in the standard alphabet.
B64Char(v) ==
  IF v < 26 THEN 65 + v
  ELSE IF v < 52 THEN 71 + v
  ELSE IF v < 62 THEN v - 4
  ELSE IF v = 62 THEN 43 ELSE 47

\* The 6-bit value of a character, -1 when it is not of the alphabet.
B64Value(c) ==
  IF c >= 65 /\ c <= 90 THEN c - 65
  ELSE IF c >= 97 /\ c <= 122 THEN c - 71
  ELSE IF c >= 48 /\ c <= 57 THEN c + 4
  ELSE IF c = 43 THEN 62
  ELSE IF c = 47 THEN 63
  ELSE -1

\* '='
Pad == 61

\* base64.StdEncoding.Encode
RECURSIVE Encode(_)
Encode(d) ==
  IF d = <<>> THEN <<>>
  ELSE IF Len(d) = 1 THEN
    << B64Char(d[1] \div 4), B64Char((d[1] % 4) * 16), Pad, Pad >>
  ELSE IF Len(d) = 2 THEN
    << B64Char(d[1] \div 4),
       B64Char((d[1] % 4) * 16 + d[2] \div 16),
       B64Char((d[2] % 16) * 4), Pad >>
  ELSE
    << B64Char(d[1] \div 4),
       B64Char((d[1] % 4) * 16 + d[2] \div 16),
       B64Char((d[2] % 16) * 4 + d[3] \div 64),
       B64Char(d[3] % 64) >> \o Encode(Drop(d, 3))

\* The decoder skips '\r' and '\n'.
RECURSIVE SkipNewlines(_)
SkipNewlines(s) ==
  IF s = <<>> THEN <<>>
  ELSE IF Head(s) \in {LF, CR} THEN SkipNewlines(Tail(s))
  ELSE <<Head(s)>> \o SkipNewlines(Tail(s))

\* Decoding of a string without '\r' and '\n': [ok, doc].
RECURSIVE DecodeQuanta(_)
DecodeQuanta(s) ==
  IF s = <<>> THEN [ok |-> TRUE, doc |-> <<>>]
  ELSE IF Len(s) < 4 THEN [ok |-> FALSE, doc |-> <<>>]
  ELSE
    LET v1 == B64Value(s[1])
        v2 == B64Value(s[2])
        v3 == B64Value(s[3])
        v4 == B64Value(s[4])
    IN
    IF v1 < 0 \/ v2 < 0 THEN [ok |-> FALSE, doc |-> <<>>]
    ELSE IF v3 >= 0 /\ v4 >= 0 THEN
      LET rest == DecodeQuanta(Drop(s, 4))
      IN [ok |-> rest.ok,
          doc |-> << v1 * 4 + v2 \div 16,
                     (v2 % 16) * 16 + v3 \div 4,
                     (v3 % 4) * 64 + v4 >> \o rest.doc]
    ELSE IF Len(s) # 4 THEN [ok |-> FALSE, doc |-> <<>>]
    ELSE IF s[3] = Pad /\ s[4] = Pad THEN
      [ok |-> TRUE, doc |-> << v1 * 4 + v2 \div 16 >>]
    ELSE IF v3 >= 0 /\ s[4] = Pad THEN
      [ok |-> TRUE, doc |-> << v1 * 4 + v2 \div 16, (v2 % 16) * 16 + v3 \div 4 >>]
    ELSE [ok |-> FALSE, doc |-> <<>>]

\* base64.StdEncoding.Decode
Decode(s) == DecodeQuanta(SkipNewlines(s))

\* -------------------------------------------------------- bufio.Reader

\* Whether ReadLine can return without another read of the underlying stream:
\* the buffer holds a terminator, a read error is pending, or the buffer is full.
Ready(b, e) == IndexLF(b) > 0 \/ e # "none" \/ Len(b) >= BufSize

\* bufio.Reader.ReadLine on buffered bytes b with pending read error e, when
\* Ready(b, e): the chunk returned, isPrefix, the error returned, the bytes left
\* in the buffer. A pending error is returned once and cleared.
ReadLine(b, e) ==
  LET j == IndexLF(b) IN
  IF j > 0 THEN
    [chunk |-> IF j > 1 /\ b[j - 1] = CR THEN Take(b, j - 2) ELSE Take(b, j - 1),
     pfx |-> FALSE, err |-> "none", rest |-> Drop(b, j)]
  ELSE IF e # "none" THEN
    [chunk |-> b, pfx |-> FALSE, err |-> IF b = <<>> THEN e ELSE "none",
     rest |-> <<>>]
  ELSE IF b[Len(b)] = CR THEN
    [chunk |-> Take(b, Len(b) - 1), pfx |-> TRUE, err |-> "none", rest |-> <<CR>>]
  ELSE
    [chunk |-> b, pfx |-> TRUE, err |-> "none", rest |-> <<>>]


\* ---------------------------------------------------------------- state

VARIABLES
  rev,       \* "A" (src/b64filter.go) or "B" (src/unnamed/part_001)
  fkind,     \* what the filter program does: "cat", "lossy" or "crash"
  incap,     \* capacity of the pipe to the filter
  outcap,    \* capacity of the pipe from the filter
  docs,      \* the documents encoded on standard input
  bad,       \* whether a line that is not base64 follows them
  stdin,     \* standard input: the whole stream the run is given
  input,     \* standard input: the bytes readDocs has not read yet
  line,      \* readDocs: the line accumulated so far
  dpc,       \* readDocs: "read", "send", "sendlast", "closed"
  chdoc,     \* readDocs: the document it is sending on the docs channel
  mpc,       \* main: where it is
  wrem,      \* main: the bytes of the current document still to write to cmdin
  lines,     \* main: bytes.Count(doc, "\n") of the current document
  i,         \* main: documents processed
  counts,    \* the ledger: the counts pushed and not yet popped
  cclosed,   \* the ledger's completion: close(counts) (A), counts.Dispose() (B)
  inpipe,    \* bytes in the pipe to the filter
  inclosed,  \* cmdin.Close() was called
  fpc,       \* the filter: "run" or "exited"
  fstatus,   \* the filter's exit status
  fin,       \* the filter: the bytes read of the line it is reading
  fout,      \* the filter: the bytes of the line it is writing
  outpipe,   \* bytes in the pipe from the filter
  outst,     \* that pipe: "open", "eof" (the filter exited), "closed" (by cmd.Wait)
  rbuf,      \* writeDocs' bufio.Reader: the bytes buffered
  rerr,      \* its pending read error: "none", "EOF", "closed"
  wpc,       \* writeDocs: "pop", "read", "senddone", "exit"
  n,         \* writeDocs: the count it is reading lines for
  rn,        \* readNLines: the loop counter n
  rlines,    \* readNLines: lines
  rline,     \* readNLines: line
  stdout,    \* the records written to standard output, without their terminator
  exit,      \* the run: "running", "ok" (status 0), "fatal" (status 1)
  epc,       \* the copy of the filter's error stream: "copy", "failed", "done"
  fed,       \* history: the documents main received
  pushed,    \* history: the counts pushed to the ledger
  popped,    \* history: the counts popped from the ledger
  inhist,    \* history: the bytes written to the filter's input
  fhist,     \* history: the bytes the filter wrote
  rtaken,    \* history: the bytes ReadLine consumed for the count being read
  taken      \* history: per record written, the bytes ReadLine consumed for it

vars == << rev, fkind, incap, outcap, docs, bad, stdin, epc, input, line, dpc, chdoc, mpc, wrem, lines,
           i, counts, cclosed, inpipe, inclosed, fpc, fstatus, fin, fout,
           outpipe, outst, rbuf, rerr, wpc, n, rn, rlines, rline, stdout, exit,
           fed, pushed, popped, inhist, fhist, rtaken, taken >>

decoderVars == << input, line, dpc, chdoc >>
mainVars == << mpc, wrem, lines, i >>
filterVars == << fpc, fstatus, fin, fout >>
readerVars == << rbuf, rerr, wpc, n, rn, rlines, rline >>
envVars == << rev, fkind, incap, outcap, docs, bad, stdin >>

\* ---------------------------------------------------------------- inputs

\* The byte strings of length k.
RECURSIVE Strings(_)
Strings(k) ==
  IF k = 0 THEN {<<>>}
  ELSE {<<b>> \o s : b \in Bytes, s \in Strings(k - 1)}

\* The sequences of at most m documents of at most k bytes in total.
RECURSIVE DocSeqs(_, _)
DocSeqs(m, k) ==
  IF m = 0 THEN {<<>>}
  ELSE {<<>>} \cup
       UNION {{<<d>> \o ds : d \in Strings(h), ds \in DocSeqs(m - 1, k - h)} :
              h \in 0..k}

\* The input stream of a sequence of documents: one base64 line per document.
RECURSIVE Stream(_)
Stream(ds) ==
  IF ds = <<>> THEN <<>>
  ELSE Encode(Head(ds)) \o <<LF>> \o Stream(Tail(ds))

\* The document sequences a run is given.
Inputs == DocSeqs(MaxDocs, MaxBytes)

\* A line that is not base64: its length is no multiple of four.
BadLine == <<97, LF>>

InitCommon ==
  /\ rev \in {"A", "B"}
  /\ line = <<>> /\ dpc = "read" /\ chdoc = <<>>
  /\ mpc = "recv" /\ wrem = <<>> /\ lines = 0 /\ i = 0
  /\ counts = <<>> /\ cclosed = FALSE
  /\ inpipe = <<>> /\ inclosed = FALSE
  /\ fpc = "run" /\ fstatus = 0 /\ fin = <<>> /\ fout = <<>>
  /\ outpipe = <<>> /\ outst = "open"
  /\ rbuf = <<>> /\ rerr = "none" /\ wpc = "pop"
  /\ n = 0 /\ rn = 0 /\ rlines = <<>> /\ rline = <<>>
  /\ stdout = <<>> /\ exit = "running" /\ epc = "copy"
  /\ fed = <<>> /\ pushed = <<>> /\ popped = <<>> /\ inhist = <<>> /\ fhist = <<>>
  /\ rtaken = <<>> /\ taken = <<>>

\* After main has started the filter and writeDocs and called readDocs
\* (src/b64filter.go:168-177, src/unnamed/part_001:222-232).
Init ==
  /\ InitCommon
  /\ fkind \in {"cat", "lossy", "crash"}
  /\ incap = InCap /\ outcap = OutCap
  /\ docs \in Inputs
  /\ bad \in {FALSE, Len(docs) <= 1}
  /\ stdin = Stream(docs) \o (IF bad THEN BadLine ELSE <<>>)
  /\ input = stdin

\* ------------------------------------------------------------- readDocs

\* ReadLine on standard input: the reader's buffer holds the next BufSize bytes
\* of the stream, and end of input is seen when fewer are left.
StdinBuffer == Take(input, Min(BufSize, Len(input)))

StdinErr ==
  IF IndexLF(StdinBuffer) = 0 /\ Len(input) < BufSize THEN "EOF" ELSE "none"

\* An end of input at which whatever was accumulated, nothing included, is
\* decoded and sent.
AtEOFAlways(acc) == TRUE

\* An end of input at which what was accumulated is forgotten.
AtEOFNever(acc) == FALSE

\* At the end of input the accumulated line is decoded and sent only when it
\* is not empty: if len(line) > 0.
AtEOF(acc) == Len(acc) > 0

\* One iteration of readDocs' loop: ReadLine, accumulate, and at the end of a
\* line or of the input decode what was accumulated.
readDocs ==
  /\ exit = "running" /\ dpc = "read"
  /\ LET r == ReadLine(StdinBuffer, StdinErr)
         acc == line \o r.chunk
         dec == Decode(acc)
     IN
     /\ input' = r.rest \o Drop(input, Len(StdinBuffer))
     /\ IF r.err # "none" THEN
          IF AtEOF(acc) THEN
            IF dec.ok
            THEN /\ chdoc' = dec.doc /\ dpc' = "sendlast" /\ line' = acc
                 /\ exit' = exit
            ELSE /\ exit' = "fatal" /\ UNCHANGED << chdoc, dpc >> /\ line' = acc
          ELSE /\ dpc' = "closed" /\ line' = acc /\ UNCHANGED << chdoc, exit >>
        ELSE IF ~r.pfx THEN
          IF dec.ok
          THEN /\ chdoc' = dec.doc /\ dpc' = "send" /\ line' = <<>>
               /\ exit' = exit
          ELSE /\ exit' = "fatal" /\ UNCHANGED << chdoc, dpc >> /\ line' = acc
        ELSE /\ line' = acc /\ UNCHANGED << chdoc, dpc, exit >>
  /\ UNCHANGED << envVars, epc, mainVars, counts, cclosed, inpipe, inclosed,
                  filterVars, outpipe, outst, readerVars, stdout,
                  fed, pushed, popped, inhist, fhist, rtaken, taken >>


\* ----------------------------------------------------------------- main

\* for doc := range docs: receive the next document and count its terminators,
\* or leave the loop when readDocs has closed the channel.
mainRecv ==
  /\ exit = "running" /\ mpc = "recv"
  /\ \/ /\ dpc \in {"send", "sendlast"}
        /\ dpc' = IF dpc = "send" THEN "read" ELSE "closed"
        /\ lines' = CountLF(chdoc)
        /\ wrem' = chdoc \o <<LF>>
        /\ fed' = Append(fed, chdoc)
        /\ mpc' = "write"
     \/ /\ dpc = "closed"
        /\ mpc' = IF rev = "A" THEN "closecounts" ELSE "closein"
        /\ UNCHANGED << dpc, lines, wrem, fed >>
  /\ UNCHANGED << envVars, epc, input, line, chdoc, i, counts, cclosed, inpipe,
                  inclosed, filterVars, outpipe, outst, readerVars, stdout,
                  exit, pushed, popped, inhist, fhist, rtaken, taken >>

\* A write that returns as soon as some bytes have gone into the pipe.
WrittenSome(k, w) == TRUE

\* cmdin.Write returns when all the bytes w have been written: k bytes going
\* into the pipe now complete it when they are all that was left.
Written(k, w) == k = Len(w)

\* cmdin.Write(doc); cmdin.Write("\n"): the bytes go into the pipe as room
\* allows, and the write blocks while the pipe is full.
mainWrite ==
  /\ exit = "running" /\ mpc = "write" /\ fpc = "run"
  /\ Len(inpipe) < incap
  /\ LET k == Min(incap - Len(inpipe), Len(wrem)) IN
     /\ inpipe' = inpipe \o Take(wrem, k)
     /\ inhist' = inhist \o Take(wrem, k)
     /\ wrem' = Drop(wrem, k)
     /\ mpc' = IF Written(k, wrem) THEN "push" ELSE "write"
  /\ UNCHANGED << envVars, epc, decoderVars, lines, i, counts, cclosed, inclosed,
                  filterVars, outpipe, outst, readerVars, stdout, exit,
                  fed, pushed, popped, fhist, rtaken, taken >>

\* A write to the pipe of a filter that has exited fails: log.Fatalf.
mainWriteFails ==
  /\ exit = "running" /\ mpc = "write" /\ fpc = "exited"
  /\ exit' = "fatal"
  /\ UNCHANGED << envVars, epc, decoderVars, mainVars, counts, cclosed, inpipe,
                  inclosed, filterVars, outpipe, outst, readerVars, stdout,
                  fed, pushed, popped, inhist, fhist, rtaken, taken >>

\* Whether a push to the ledger can proceed: a send on the channel of revision A
\* blocks while the channel's buffer is full; Put on the queue of revision B
\* appends to a slice (the argument of queue.New is the slice's first capacity).
CanPush == rev = "B" \/ Len(counts) < CountsCap

\* A count that forgets the terminator written after the document.
PushedCountNoExtra(c) == c

\* The count pushed for a document with c terminators.
PushedCount(c) == c + 1

\* counts <- lines + 1 (A), counts.Put(lines + 1) (B); i += 1
mainPush ==
  /\ exit = "running" /\ mpc = "push"
  /\ CanPush
  /\ counts' = Append(counts, PushedCount(lines))
  /\ pushed' = Append(pushed, PushedCount(lines))
  /\ i' = i + 1
  /\ mpc' = "recv"
  /\ UNCHANGED << envVars, epc, decoderVars, wrem, lines, cclosed, inpipe, inclosed,
                  filterVars, outpipe, outst, readerVars, stdout, exit,
                  fed, popped, inhist, fhist, rtaken, taken >>

\* Revision A: close(counts)
mainCloseCounts ==
  /\ exit = "running" /\ mpc = "closecounts"
  /\ cclosed' = TRUE
  /\ mpc' = "closein"
  /\ UNCHANGED << envVars, epc, decoderVars, wrem, lines, i, counts, inpipe,
                  inclosed, filterVars, outpipe, outst, readerVars, stdout,
                  exit, fed, pushed, popped, inhist, fhist, rtaken, taken >>

\* cmdin.Close()
mainCloseIn ==
  /\ exit = "running" /\ mpc = "closein"
  /\ inclosed' = TRUE
  /\ mpc' = IF rev = "A" THEN "wait" ELSE "drain"
  /\ UNCHANGED << envVars, epc, decoderVars, wrem, lines, i, counts, cclosed,
                  inpipe, filterVars, outpipe, outst, readerVars, stdout,
                  exit, fed, pushed, popped, inhist, fhist, rtaken, taken >>

\* A drain loop that disposes the queue without looking at it.
EmptyNotAsked(q) == TRUE

\* counts.Empty()
Empty(q) == q = <<>>

\* Revision B: the loop that polls counts.Empty() and disposes the queue once
\* it is empty. Dispose marks the queue disposed and drops what it holds.
mainDrain ==
  /\ exit = "running" /\ mpc = "drain"
  /\ Empty(counts)
  /\ cclosed' = TRUE
  /\ counts' = <<>>
  /\ mpc' = "recvdone"
  /\ UNCHANGED << envVars, epc, decoderVars, wrem, lines, i, inpipe,
                  inclosed, filterVars, outpipe, outst, readerVars, stdout,
                  exit, fed, pushed, popped, inhist, fhist, rtaken, taken >>

\* Revision B: _ = <-done, which meets writeDocs' done <- true.
mainRecvDone ==
  /\ exit = "running" /\ mpc = "recvdone" /\ wpc = "senddone"
  /\ wpc' = "exit"
  /\ mpc' = "wait"
  /\ UNCHANGED << envVars, epc, decoderVars, wrem, lines, i, counts, cclosed,
                  inpipe, inclosed, filterVars, outpipe, outst, rbuf, rerr, n,
                  rn, rlines, rline, stdout, exit, fed, pushed, popped, inhist, fhist,
                  rtaken, taken >>

\* cmd.Wait(): returns when the filter has exited, closes the pipe from the
\* filter, and reports an exit status other than 0, which is fatal.
mainWait ==
  /\ exit = "running" /\ mpc = "wait" /\ fpc = "exited"
  /\ outst' = "closed"
  /\ outpipe' = <<>>
  /\ IF fstatus # 0
     THEN exit' = "fatal" /\ mpc' = mpc
     ELSE exit' = exit /\ mpc' = "log"
  /\ UNCHANGED << envVars, epc, decoderVars, wrem, lines, i, counts, cclosed,
                  inpipe, inclosed, filterVars, readerVars, stdout,
                  fed, pushed, popped, inhist, fhist, rtaken, taken >>

\* log.Printf("processed %v documents", i) and the return from main.
mainReturn ==
  /\ exit = "running" /\ mpc = "log"
  /\ exit' = "ok"
  /\ mpc' = "done"
  /\ UNCHANGED << envVars, epc, decoderVars, wrem, lines, i, counts, cclosed,
                  inpipe, inclosed, filterVars, outpipe, outst, readerVars,
                  stdout, fed, pushed, popped, inhist, fhist, rtaken, taken >>


\* ----------------------------------------------------- the filter program

\* The filter reads from its standard input up to the end of a line. With
\* emit, a complete line becomes the line to write; without, it is dropped.
FilterTake(emit) ==
  /\ exit = "running" /\ fpc = "run"
  /\ fout = <<>> /\ inpipe # <<>>
  /\ LET j == IndexLF(inpipe) IN
     IF j > 0
     THEN /\ fout' = IF emit THEN fin \o Take(inpipe, j) ELSE <<>>
          /\ fin' = <<>>
          /\ inpipe' = Drop(inpipe, j)
     ELSE /\ fin' = fin \o inpipe
          /\ inpipe' = <<>>
          /\ fout' = fout
  /\ UNCHANGED << envVars, epc, decoderVars, mainVars, counts, cclosed, inclosed,
                  fpc, fstatus, outpipe, outst, readerVars, stdout, exit,
                  fed, pushed, popped, inhist, fhist, rtaken, taken >>

\* A line-preserving filter (cat): every line read is written.
filterRead == FilterTake(TRUE)

\* A filter that is not line-preserving: it reads a line and writes nothing.
filterDrop == fkind = "lossy" /\ IndexLF(inpipe) > 0 /\ FilterTake(FALSE)

\* The filter writes to its standard output as room allows.
filterWrite ==
  /\ exit = "running" /\ fpc = "run"
  /\ fout # <<>> /\ Len(outpipe) < outcap
  /\ LET k == Min(outcap - Len(outpipe), Len(fout)) IN
     /\ outpipe' = outpipe \o Take(fout, k)
     /\ fhist' = fhist \o Take(fout, k)
     /\ fout' = Drop(fout, k)
  /\ UNCHANGED << envVars, epc, decoderVars, mainVars, counts, cclosed, inpipe,
                  inclosed, fpc, fstatus, fin, outst, readerVars, stdout, exit,
                  fed, pushed, popped, inhist, rtaken, taken >>

\* The filter sees the end of its input, having written all it had, and exits
\* with status 0.
filterExit ==
  /\ exit = "running" /\ fpc = "run"
  /\ inclosed /\ inpipe = <<>> /\ fout = <<>>
  /\ fpc' = "exited" /\ fstatus' = 0
  /\ outst' = "eof"
  /\ UNCHANGED << envVars, epc, decoderVars, mainVars, counts, cclosed, inpipe,
                  inclosed, fin, fout, outpipe, readerVars, stdout, exit,
                  fed, pushed, popped, inhist, fhist, rtaken, taken >>

\* The filter dies at any moment, with a status other than 0.
filterCrash ==
  /\ exit = "running" /\ fpc = "run" /\ fkind = "crash"
  /\ fpc' = "exited" /\ fstatus' = 1
  /\ fout' = <<>>
  /\ outst' = "eof"
  /\ UNCHANGED << envVars, epc, decoderVars, mainVars, counts, cclosed, inpipe,
                  inclosed, fin, outpipe, readerVars, stdout, exit,
                  fed, pushed, popped, inhist, fhist, rtaken, taken >>

\* ------------------------------------------- the copy of the error stream

\* io.Copy(os.Stderr, cmderr) returns an error (a write to standard error or a
\* read of the pipe failed): revision A calls log.Fatalf, which ends the run
\* with status 1; revision B calls log.Printf and the goroutine ends.
errCopyFails ==
  /\ exit = "running" /\ epc = "copy"
  /\ epc' = "failed"
  /\ exit' = IF rev = "A" THEN "fatal" ELSE exit
  /\ UNCHANGED << envVars, decoderVars, mainVars, counts, cclosed, inpipe,
                  inclosed, filterVars, outpipe, outst, readerVars, stdout,
                  fed, pushed, popped, inhist, fhist, rtaken, taken >>

\* io.Copy returns without an error at the end of the filter's error stream,
\* which comes when the filter has exited.
errCopyEnds ==
  /\ exit = "running" /\ epc = "copy" /\ fpc = "exited"
  /\ epc' = "done"
  /\ UNCHANGED << envVars, decoderVars, mainVars, counts, cclosed, inpipe,
                  inclosed, filterVars, outpipe, outst, readerVars, stdout,
                  exit, fed, pushed, popped, inhist, fhist, rtaken, taken >>

\* ------------------------------------------------------------ writeDocs

\* The next count off the ledger: for n := range counts (A), counts.Get(1) (B).
\* The loop ends when the ledger is empty and complete; revision B then sends
\* on done.
writeDocsPop ==
  /\ exit = "running" /\ wpc = "pop"
  /\ \/ /\ counts # <<>>
        /\ n' = Head(counts)
        /\ counts' = Tail(counts)
        /\ popped' = Append(popped, Head(counts))
        /\ rn' = 0 /\ rlines' = <<>> /\ rline' = <<>> /\ rtaken' = <<>>
        /\ wpc' = "read"
     \/ /\ counts = <<>> /\ cclosed
        /\ wpc' = IF rev = "A" THEN "exit" ELSE "senddone"
        /\ UNCHANGED << counts, n, rn, rlines, rline, rtaken, popped >>
  /\ UNCHANGED << envVars, epc, decoderVars, mainVars, cclosed, inpipe, inclosed,
                  filterVars, outpipe, outst, rbuf, rerr, stdout, exit,
                  fed, pushed, inhist, fhist, taken >>

\* The bufio.Reader reads from the pipe: what is there, as far as the buffer
\* has room; end of input once the filter has exited and the pipe is empty; an
\* error once cmd.Wait has closed the pipe.
readFill ==
  /\ exit = "running" /\ wpc = "read"
  /\ ~Ready(rbuf, rerr)
  /\ IF outst = "closed" THEN
       /\ rerr' = "closed" /\ UNCHANGED << rbuf, outpipe >>
     ELSE IF outpipe # <<>> THEN
       LET k == Min(BufSize - Len(rbuf), Len(outpipe)) IN
       /\ rbuf' = rbuf \o Take(outpipe, k)
       /\ outpipe' = Drop(outpipe, k)
       /\ rerr' = rerr
     ELSE
       /\ outst = "eof"
       /\ rerr' = "EOF" /\ UNCHANGED << rbuf, outpipe >>
  /\ UNCHANGED << envVars, epc, decoderVars, mainVars, counts, cclosed, inpipe,
                  inclosed, filterVars, outst, wpc, n, rn, rlines, rline,
                  stdout, exit, fed, pushed, popped, inhist, fhist, rtaken, taken >>

\* One iteration of readNLines' loop in revision A, after ReadLine returned r:
\* the lines, the line, the counter after the iteration, and how the loop goes
\* on ("loop", "break" or "error").
LoopA(r) ==
  LET acc == rline \o r.chunk IN
  IF r.err = "EOF" THEN
    [lines |-> IF Len(acc) > 0 THEN Append(rlines, acc) ELSE rlines,
     line |-> acc, rn |-> rn, go |-> "break"]
  ELSE IF r.err # "none" THEN
    [lines |-> rlines, line |-> acc, rn |-> rn, go |-> "error"]
  ELSE IF ~r.pfx THEN
    [lines |-> Append(rlines, acc), line |-> <<>>, rn |-> rn + 1, go |-> "loop"]
  ELSE
    [lines |-> rlines, line |-> acc, rn |-> rn + 1, go |-> "loop"]

\* The same in revision B.
LoopB(r) ==
  LET acc == rline \o r.chunk IN
  IF r.err = "EOF" THEN
    [lines |-> Append(rlines, acc), line |-> acc, rn |-> rn, go |-> "break"]
  ELSE IF r.err # "none" THEN
    [lines |-> rlines, line |-> acc, rn |-> rn, go |-> "error"]
  ELSE IF ~r.pfx THEN
    [lines |-> Append(rlines, acc), line |-> <<>>, rn |-> rn + 1, go |-> "loop"]
  ELSE
    [lines |-> rlines, line |-> acc, rn |-> rn, go |-> "loop"]

\* The document writeDocs makes of the lines read.
Reassemble(ls) == Join(ls)

\* One call of ReadLine in readNLines and the iteration it belongs to; when the
\* loop ends, writeDocs' check of the number of lines and its write of the
\* record. An error of readNLines and a wrong number of lines are fatal.
readNLines ==
  /\ exit = "running" /\ wpc = "read"
  /\ Ready(rbuf, rerr)
  /\ LET r == ReadLine(rbuf, rerr)
         it == IF rev = "A" THEN LoopA(r) ELSE LoopB(r)
         got == rtaken \o Take(rbuf, Len(rbuf) - Len(r.rest))
     IN
     /\ rbuf' = r.rest
     /\ rerr' = "none"
     /\ rlines' = it.lines /\ rline' = it.line /\ rn' = it.rn
     /\ rtaken' = got
     /\ IF it.go = "error" THEN
          /\ exit' = "fatal" /\ UNCHANGED << wpc, stdout, taken >>
        ELSE IF it.go = "loop" /\ it.rn < n THEN
          UNCHANGED << exit, wpc, stdout, taken >>
        ELSE IF Len(it.lines) # n THEN
          /\ exit' = "fatal" /\ UNCHANGED << wpc, stdout, taken >>
        ELSE
          /\ stdout' = Append(stdout, Encode(Reassemble(it.lines)))
          /\ taken' = Append(taken, got)
          /\ wpc' = "pop"
          /\ exit' = exit
  /\ UNCHANGED << envVars, epc, decoderVars, mainVars, counts, cclosed, inpipe,
                  inclosed, filterVars, outpipe, outst, n,
                  fed, pushed, popped, inhist, fhist >>

\* ------------------------------------------------------- specifications

Next ==
  \/ readDocs
  \/ mainRecv
  \/ mainWrite
  \/ mainWriteFails
  \/ mainPush
  \/ mainCloseCounts
  \/ mainCloseIn
  \/ mainDrain
  \/ mainRecvDone
  \/ mainWait
  \/ mainReturn
  \/ filterRead
  \/ filterDrop
  \/ filterWrite
  \/ filterExit
  \/ filterCrash
  \/ errCopyFails
  \/ errCopyEnds
  \/ writeDocsPop
  \/ readFill
  \/ readNLines

Spec == Init /\ [][Next]_vars


\* A line-preserving filter only: every action but those of a filter that
\* drops lines or dies and of a copy of the error stream that fails.
NextCat ==
  \/ readDocs
  \/ mainRecv
  \/ mainWrite
  \/ mainPush
  \/ mainCloseCounts
  \/ mainCloseIn
  \/ mainDrain
  \/ mainRecvDone
  \/ mainWait
  \/ mainReturn
  \/ filterRead
  \/ filterWrite
  \/ filterExit
  \/ errCopyEnds
  \/ writeDocsPop
  \/ readFill
  \/ readNLines

InitCat ==
  /\ InitCommon
  /\ fkind = "cat"
  /\ incap = InCap /\ outcap = OutCap
  /\ docs \in DocSeqs(MaxDocs, MaxCatBytes)
  /\ bad = FALSE
  /\ stdin = Stream(docs)
  /\ input = stdin

SpecCat == InitCat /\ [][NextCat]_vars

\* Many empty documents, one more than the ledger of revision B is made for,
\* and a pipe from the filter that holds the filter's output for all of them.
InitLedger ==
  /\ InitCommon
  /\ fkind = "cat"
  /\ incap = InCap /\ outcap = BigPipe
  /\ docs = [k \in 1..(QueueHint + 1) |-> <<>>]
  /\ bad = FALSE
  /\ stdin = Stream(docs)
  /\ input = stdin

SpecLedger == InitLedger /\ [][NextCat]_vars

\* The input stream s without its final terminator.
Unterminated(s) == Take(s, Len(s) - 1)

\* The ways the input stream of a sequence of documents can end: with the
\* terminator of the last line, without it when that line is not empty, and
\* with a carriage return after it.
Endings(ds) ==
  {Stream(ds), Stream(ds) \o <<CR>>} \cup
  (IF ds # <<>> /\ ds[Len(ds)] # <<>> THEN {Unterminated(Stream(ds))} ELSE {})

\* readDocs and main's loop over the documents, up to cmdin.Close(), while the
\* filter has not read anything yet and the pipe to it holds all that is
\* written.
NextFeed ==
  \/ readDocs
  \/ mainRecv
  \/ mainWrite
  \/ mainPush
  \/ mainCloseCounts
  \/ mainCloseIn

InitFeed ==
  /\ InitCommon
  /\ fkind = "cat"
  /\ incap = BigPipe /\ outcap = OutCap
  /\ docs \in Inputs
  /\ bad = FALSE
  /\ stdin \in Endings(docs)
  /\ input = stdin

SpecFeed == InitFeed /\ [][NextFeed]_vars

\* ------------------------------------------------------------- the claims

\* The position of the m-th terminator of s (0 for m = 0, and Len(s) + 1 when
\* s has fewer than m).
RECURSIVE NthLF(_, _)
NthLF(s, m) ==
  IF m = 0 THEN 0
  ELSE LET j == IndexLF(s) IN
       IF j = 0 THEN Len(s) + 1
       ELSE j + NthLF(Drop(s, j), m - 1)

\* The lines of the byte history h that belong to the k-th document: those
\* after the lines of the documents before it, as many as its count.
SegmentOf(h, k) ==
  LET from == NthLF(h, Sum(Take(pushed, k - 1)))
      to == NthLF(h, Sum(Take(pushed, k)))
  IN SubSeq(h, Min(from, Len(h)) + 1, Min(to, Len(h)))

\* What main writes to the filter for a sequence of documents.
RECURSIVE FedBytes(_)
FedBytes(ds) ==
  IF ds = <<>> THEN <<>>
  ELSE Head(ds) \o <<LF>> \o FedBytes(Tail(ds))

\* C1. Round trip: through a filter that echoes every line, there are never
\* more records than documents and the k-th record written decodes to the k-th
\* document, byte for byte. (That no record is missing at the end is C3.)
C1_RoundTrip ==
  fkind = "cat" /\ ~bad =>
    /\ Len(stdout) <= Len(docs)
    /\ \A k \in 1..Len(stdout) :
         Decode(stdout[k]).ok /\ Decode(stdout[k]).doc = docs[k]

\* C2. FIFO correlation: the counts popped are the counts pushed, in order; the
\* k-th count is that of the k-th input document; and the k-th record written
\* is made of the filter's output for the k-th document, which is the lines of
\* that output the counts assign to it.
C2_FifoCorrelation ==
  fkind = "cat" =>
    /\ popped = Take(pushed, Len(popped))
    /\ counts = Drop(pushed, Len(popped))
    /\ Len(pushed) <= Len(fed) /\ Len(fed) <= Len(docs)
    /\ \A k \in 1..Len(fed) : fed[k] = docs[k]
    /\ \A k \in 1..Len(pushed) : pushed[k] = CountLF(docs[k]) + 1
    /\ Len(stdout) <= Len(popped)
    /\ Len(taken) = Len(stdout)
    /\ \A k \in 1..Len(stdout) : taken[k] = SegmentOf(fhist, k)

\* C3. When main has reported "processed N documents" and the run has ended
\* with status 0, N records have been written, one per input document.
C3_SummaryAfterRecords ==
  exit = "ok" => Len(stdout) = i /\ i = Len(docs)

\* C4. Drain before reap: main is at cmd.Wait() or past it (so the pipe from
\* the filter may be closed) only when writeDocs has consumed the output for
\* every ledger entry: the ledger is empty and every count pushed has its
\* record.
C4_DrainBeforeReap ==
  (mpc \in {"wait", "log", "done"} \/ outst = "closed") =>
    counts = <<>> /\ Len(stdout) = Len(pushed)

\* C5. Deadlock freedom with a line-preserving filter: no state in which main
\* is blocked writing to a full pipe to the filter, the filter is blocked
\* writing to a full pipe from it, and writeDocs is blocked on an empty ledger.
C5_NoCircularWait ==
  ~ ( /\ fkind = "cat" /\ exit = "running"
      /\ mpc = "write" /\ Len(inpipe) = incap
      /\ fpc = "run" /\ fout # <<>> /\ Len(outpipe) = outcap
      /\ wpc = "pop" /\ counts = <<>> /\ ~cclosed )

\* C6. Back-pressure: the ledger never holds more entries than its capacity,
\* 256 in revision A and 32 in revision B.
C6_LedgerBounded ==
  Len(counts) <= (IF rev = "A" THEN CountsCap ELSE QueueHint)

\* C7. Exit status: a run ends with status 0 only if no line of the input
\* failed to decode, the filter exited with status 0, no read from the filter's
\* pipe failed, and the filter produced the lines the ledger's counts demand.
C7_ExitStatus ==
  exit = "ok" =>
    /\ ~bad
    /\ fstatus = 0
    /\ rerr # "closed"
    /\ Sum(pushed) <= CountLF(fhist)

\* C8. A short read is fatal: a record is written for a count n only when the
\* filter has produced n complete lines for it, so the counts of the records
\* written never add up to more lines than the filter has written.
C8_ShortReadFatal ==
  Sum(Take(popped, Len(stdout))) <= CountLF(fhist)

\* C9. Line-count accounting: the count pushed for a document is the number of
\* its terminators plus one; what main writes to the filter for it is the
\* document and one terminator, that many lines; and between two documents the
\* counts pushed add up to the terminators written to the filter.
C9_LineCountAccounting ==
  /\ Len(pushed) <= Len(fed)
  /\ \A k \in 1..Len(pushed) :
       /\ pushed[k] = CountLF(fed[k]) + 1
       /\ SegmentOf(inhist, k) = fed[k] \o <<LF>>
       /\ CountLF(SegmentOf(inhist, k)) = pushed[k]
  /\ mpc \in {"recv", "push"} => inhist = FedBytes(fed)
  /\ Len(pushed) = Len(fed) => Sum(pushed) = CountLF(inhist)

\* A document with an embedded terminator and the document after it have both
\* been written and counted.
C9_Witness ==
  /\ Len(pushed) = 2 /\ pushed[1] = 2 /\ mpc = "recv"
  /\ CountLF(inhist) = Sum(pushed)

\* C10. An empty document, wherever it stands: its count is 1 and one line is
\* written to the filter for it; its record decodes to the empty document; no
\* record of the run is made of another document's lines; and a run that ends
\* successfully has written its record.
C10_EmptyDocument ==
  fkind = "cat" /\ ~bad /\ (\E k \in 1..Len(docs) : docs[k] = <<>>) =>
    /\ \A k \in 1..Len(pushed) :
         docs[k] = <<>> => pushed[k] = 1 /\ SegmentOf(inhist, k) = <<LF>>
    /\ \A k \in 1..Len(stdout) :
         /\ docs[k] = <<>> => Decode(stdout[k]) = [ok |-> TRUE, doc |-> <<>>]
         /\ taken[k] = SegmentOf(fhist, k)
    /\ exit = "ok" => Len(stdout) = Len(docs)

\* The lines of a stream: the terminated ones, without their terminators, and
\* what follows the last terminator when that is not empty.
RECURSIVE LinesOf(_)
LinesOf(s) ==
  IF s = <<>> THEN <<>>
  ELSE LET j == IndexLF(s) IN
       IF j = 0 THEN <<s>>
       ELSE <<Take(s, j - 1)>> \o LinesOf(Drop(s, j))

\* The position of the last line of ls that holds base64 characters, 0 when
\* there is none.
LastNonEmpty(ls) ==
  LET full == {k \in 1..Len(ls) : SkipNewlines(ls[k]) # <<>>} IN
  IF full = {} THEN 0 ELSE CHOOSE k \in full : \A h \in full : h <= k

\* C11. Missing final terminator: when readDocs has closed its channel, the
\* documents it has sent are the documents encoded on the input, once each and
\* in order, whether the last line of the input is terminated or not.
C11_MissingFinalTerminator ==
  dpc = "closed" /\ stdin \in {Stream(docs), Unterminated(Stream(docs))} =>
    fed = docs

\* The input ended without its final terminator and both documents were sent.
C11_Witness ==
  /\ dpc = "closed" /\ Len(docs) = 2
  /\ stdin = Unterminated(Stream(docs)) /\ stdin # Stream(docs)
  /\ fed = docs

\* C12 as stated. Trailing empty fragments: when the input has empty lines
\* between its last non-empty line and its end, readDocs sends no document for
\* them: it sends as many documents as there are lines up to the last
\* non-empty one.
C12_NoTrailingEmptyDocuments ==
  /\ dpc = "closed" /\ stdin = Stream(docs)
  /\ LastNonEmpty(LinesOf(stdin)) > 0
  => Len(fed) = LastNonEmpty(LinesOf(stdin))

\* C12 as amended. readDocs sends one document per line of the input, the
\* empty document for a line without base64 characters, and none for an empty
\* fragment after the last terminator.
C12_EmptyLinesAreDocuments ==
  dpc = "closed" =>
    /\ Len(fed) = Len(LinesOf(stdin))
    /\ \A k \in 1..Len(fed) :
         SkipNewlines(LinesOf(stdin)[k]) = <<>> => fed[k] = <<>>

\* The input ended with an empty line after a non-empty one, and the empty
\* document was sent for it.
C12_Witness ==
  /\ dpc = "closed" /\ Len(stdin) >= 2
  /\ stdin[Len(stdin)] = LF /\ stdin[Len(stdin) - 1] = LF
  /\ LastNonEmpty(LinesOf(stdin)) = 1
  /\ Len(fed) = 2 /\ fed[2] = <<>>

\* No document holds a carriage return.
NoCR == \A k \in 1..Len(docs) : \A j \in 1..Len(docs[k]) : docs[k][j] # CR

\* C13. Withheld output blocks: while the filter is running (its output is
\* open) and has written fewer lines than the counts popped so far demand, no
\* step writes a record and no step of readNLines and writeDocs ends the run
\* with a fatal error. (Stated for documents without carriage returns.)
C13_WithheldOutputBlocks ==
  [][ (NoCR /\ wpc = "read" /\ fpc = "run" /\ CountLF(fhist) < Sum(popped)) =>
        (stdout' = stdout /\ (readNLines => exit' = exit)) ]_vars

\* C14. Error drain isolation: the step in which the copy of the filter's
\* error stream fails does not end the run.
C14_ErrorDrainIsolation ==
  [][ (epc = "copy" /\ epc' = "failed") => exit' = exit ]_vars

\* C15. Exact demultiplexing: with a filter that echoes every line, and as
\* long as the pipe from it has not been closed, the loop of readNLines ends
\* with exactly n lines, and the bytes consumed for the k-th record are the
\* lines of the filter's output that belong to the k-th document, up to the
\* first byte of the next. (Stated for documents without carriage returns.)
C15_ExactDemultiplexing ==
  NoCR /\ fkind = "cat" /\ ~bad /\ outst # "closed" =>
    /\ (wpc = "read" /\ rn >= n) => Len(rlines) = n
    /\ Len(taken) = Len(stdout)
    /\ \A k \in 1..Len(stdout) : taken[k] = SegmentOf(fhist, k)

\* C16. End-of-feed ordering: the pipe to the filter is closed only when
\* every document has been written and its count pushed, and the ledger's
\* completion is signalled only when that pipe has been closed.
C16_EndOfFeedOrdering ==
  /\ inclosed => dpc = "closed" /\ wrem = <<>> /\ Len(pushed) = Len(fed)
  /\ cclosed => inclosed

\* C17. Line splitting is terminator-only: with a filter that echoes every
\* line, and as long as the pipe from it has not been closed, the lines of a
\* record joined with the terminator, and one terminator after them, are
\* exactly the bytes taken from the filter's output for the record.
C17_TerminatorOnlySplitting ==
  fkind = "cat" /\ outst # "closed" =>
    \A k \in 1..Len(stdout) : Decode(stdout[k]).doc \o <<LF>> = taken[k]

\* C18. Write before push: every document whose count has been pushed (and so
\* is in the ledger or popped) has been written to the filter in full, with its
\* terminator; at most one document has been received whose count is not
\* pushed, the one main is writing or about to push; and a count is pushed
\* only when nothing of its document is left to write.
C18_WriteBeforePush ==
  /\ pushed = popped \o counts
  /\ Len(pushed) <= Len(fed) /\ Len(fed) <= Len(pushed) + 1
  /\ Len(fed) = Len(pushed) + 1 <=> mpc \in {"write", "push"}
  /\ mpc = "push" => wrem = <<>>
  /\ inhist \o wrem = FedBytes(fed)
  /\ LET full == FedBytes(Take(fed, Len(pushed)))
     IN Len(full) <= Len(inhist) /\ Take(inhist, Len(full)) = full

\* The count of the first document has been pushed and popped while the second
\* document is partly written.
C18_Witness ==
  /\ Len(pushed) = 1 /\ popped = pushed /\ Len(fed) = 2
  /\ mpc = "write" /\ wrem # <<>>
  /\ Len(inhist) > Len(FedBytes(Take(fed, 1)))

\* C19. No ledger entry lost at completion, in revision B: the counts pushed
\* are the counts popped and those still in the ledger; the ledger is disposed
\* only after the last push and when empty; and writeDocs has left its loop
\* (it sends on done, or has sent) only after the disposal, with every count
\* pushed popped and the record of each written. main gets past <-done only
\* when writeDocs has sent.
C19_NoEntryLostAtCompletion ==
  rev = "B" =>
    /\ pushed = popped \o counts
    /\ cclosed =>
         /\ counts = <<>>
         /\ dpc = "closed" /\ Len(pushed) = Len(fed)
         /\ mpc \in {"recvdone", "wait", "log", "done"}
    /\ wpc \in {"senddone", "exit"} =>
         cclosed /\ popped = pushed /\ Len(stdout) = Len(popped)
    /\ wpc = "exit" <=> mpc \in {"wait", "log", "done"}

\* Revision B has disposed the ledger after two documents and writeDocs has
\* sent on done.
C19_Witness ==
  /\ rev = "B" /\ wpc = "exit" /\ cclosed
  /\ Len(pushed) = 2 /\ popped = pushed /\ Len(stdout) = 2

\* ------------------------------------------- what holds in revision B alone

\* C2, C3, C4 and C10 fail in revision A only, where main does not wait for
\* writeDocs; revision B, which does, satisfies them.
RevisionB_Drains ==
  rev = "B" =>
    /\ C2_FifoCorrelation
    /\ C3_SummaryAfterRecords
    /\ C4_DrainBeforeReap
    /\ C10_EmptyDocument

=============================================================================
